---- MODULE Spec2Model ----
(***************************************************************************)
(* nwpc_data.grib.cfgrib._field: load_fields_from_file and                 *)
(* load_field_from_file.  A call is modelled statement by statement: pc    *)
(* is the position inside the body of load_fields_from_file (and, for      *)
(* load_field_from_file, the statements around its inner call).            *)
(*                                                                         *)
(* Python values are tagged records, so that values of different Python    *)
(* types can be compared: None, PyStr("t"), PyInt(850), PyBool(TRUE), PyDict(d).   *)
(* A Python dict is a function whose domain is its set of keys.            *)
(***************************************************************************)
EXTENDS Integers, Sequences, FiniteSets, TLC

VARIABLES
    pc,              \* position in the running call
    call,            \* the call as the caller wrote it: function name and arguments
    level_type,      \* local level_type of load_fields_from_file (rebound at line 232)
    with_index,      \* local with_index, after the default is applied
    filter_by_keys,  \* local dict, line 225
    read_keys,       \* local list, line 226
    backend_kwargs,  \* local dict, line 238
    passed,          \* what xr.open_dataset received: file and backend_kwargs
    opens,           \* number of xr.open_dataset calls made by the running call
    index_file,      \* the index file the backend used for the running call
    data_set,        \* local data_set
    result,          \* value returned to the caller
    memo             \* an earlier call: its arguments and its backend arguments

vars == <<pc, call, level_type, with_index, filter_by_keys, read_keys,
          backend_kwargs, passed, opens, index_file, data_set, result, memo>>

----------------------------------------------------------------------------
\* Python values

None == [t |-> "None"]
PyStr(s) == [t |-> "str", v |-> s]
PyInt(i) == [t |-> "int", v |-> i]
PyBool(b) == [t |-> "bool", v |-> b]
PyDict(d) == [t |-> "dict", v |-> d]
\* an argument the caller did not write, and a local not yet assigned
Omitted == [t |-> "omitted"]
Unbound == [t |-> "unbound"]
\* the outcome of a call that ends with an exception instead of a value
Raise == [t |-> "raise"]

EmptyDict == [k \in {} |-> None]
\* d[k] = v
DictSet(d, k, v) == [x \in (DOMAIN d) \cup {k} |-> IF x = k THEN v ELSE d[x]]

Dataset(vs) == [t |-> "Dataset", data_vars |-> vs]
DataArray(n) == [t |-> "DataArray", name |-> n]

----------------------------------------------------------------------------
\* GRIB2 files: a file is the sequence of its messages, a message gives its keys

Message(sn, d, c, n, tol, lev) ==
    [k \in {"shortName", "discipline", "parameterCategory", "parameterNumber",
            "typeOfLevel", "level"} |->
        CASE k = "shortName" -> PyStr(sn)
          [] k = "discipline" -> PyInt(d)
          [] k = "parameterCategory" -> PyInt(c)
          [] k = "parameterNumber" -> PyInt(n)
          [] k = "typeOfLevel" -> PyStr(tol)
          [] OTHER -> PyInt(lev)]

msgT850 == Message("t", 0, 0, 0, "isobaricInhPa", 850)
msgT500 == Message("t", 0, 0, 0, "isobaricInhPa", 500)
msgU850 == Message("u", 0, 2, 2, "isobaricInhPa", 850)
msgX850 == Message("unknown", 0, 2, 225, "isobaricInhPa", 850)
msgTsfc == Message("t", 0, 0, 0, "surface", 0)
msgPsfc == Message("sp", 0, 3, 0, "surface", 0)

FileSystem ==
    << <<msgU850, msgT850, msgT500, msgX850>>,
       <<msgPsfc, msgTsfc>>,
       <<msgX850>>,
       <<msgT500, msgTsfc, msgU850>> >>

\* number of files of FileSystem the calls choose from
NFiles == 3

Paths == 1..NFiles

\* argument values the calls choose from
Parameters ==
    {None, PyStr("t"),
     PyDict([discipline |-> PyInt(0), parameterCategory |-> PyInt(2), parameterNumber |-> PyInt(225)])}
LevelTypes == {None, PyStr("pl"), PyStr("isobaricInhPa"), PyStr("surface")}
Levels == {None, PyInt(850)}
WithIndexes == {Omitted, PyBool(FALSE), PyBool(TRUE), PyStr("my.idx")}
Functions == {"load_field_from_file", "load_fields_from_file"}

----------------------------------------------------------------------------
\* nwpc_data.grib._level and nwpc_data.grib.cfgrib._util

\* the level-type alias is replaced by the typeOfLevel it stands for
fix_level_type(lt) ==
    IF lt = PyStr("pl") THEN PyStr("isobaricInhPa") ELSE lt

ParameterKeys == <<"discipline", "parameterCategory", "parameterNumber">>

RECURSIVE FillKeys(_, _, _)
FillKeys(d, keys, fbk) ==
    IF keys = << >> THEN fbk
    ELSE FillKeys(d, Tail(keys),
                  IF Head(keys) \in DOMAIN d
                  THEN DictSet(fbk, Head(keys), d[Head(keys)]) ELSE fbk)

\* <<filter_by_keys, read_keys>> after _fill_parameter(parameter, filter_by_keys, read_keys)
_fill_parameter(parameter, fbk, rk) ==
    IF parameter.t = "str" THEN <<DictSet(fbk, "shortName", parameter), rk>>
    ELSE IF parameter.t = "dict"
    THEN <<FillKeys(parameter.v, ParameterKeys, fbk),
           rk \o SelectSeq(ParameterKeys, LAMBDA k : k \in DOMAIN parameter.v)>>
    ELSE <<fbk, rk>>

_fill_level_type(lt, fbk, rk) == <<DictSet(fbk, "typeOfLevel", lt), rk>>

_fill_level_value(level, fbk, rk) == <<DictSet(fbk, "level", level), rk>>

\* backend_kwargs after _fill_index_path(with_index, backend_kwargs)
_fill_index_path(wi, kwargs) ==
    IF wi.t = "str" THEN DictSet(kwargs, "indexpath", wi)
    ELSE IF wi.t = "bool" /\ ~wi.v THEN DictSet(kwargs, "indexpath", PyStr(""))
    ELSE kwargs

\* The outcomes of _load_first_variable(data_set): the first data variable.  What
\* it does with a data set that has no variable is not given: it may return None
\* or end with an exception (the first element of an empty list), so both are
\* outcomes.
_load_first_variable(ds) ==
    IF ds.data_vars = << >> THEN {None, Raise} ELSE {Head(ds.data_vars)}

----------------------------------------------------------------------------
\* the decoding backend: xr.open_dataset(file_path, engine="cfgrib", backend_kwargs).
\* It keeps the messages whose keys equal every entry of filter_by_keys and gives the
\* data set of their variables, in file order; with no such message the data set is
\* empty.  It returns a data set in every case, never None.

Matches(m, fbk) == \A k \in DOMAIN fbk : k \in DOMAIN m /\ m[k] = fbk[k]

RECURSIVE VarNames(_, _)
VarNames(msgs, seen) ==
    IF msgs = << >> THEN << >>
    ELSE IF Head(msgs)["shortName"].v \in seen THEN VarNames(Tail(msgs), seen)
    ELSE <<DataArray(Head(msgs)["shortName"].v)>>
         \o VarNames(Tail(msgs), seen \cup {Head(msgs)["shortName"].v})

open_dataset(file_path, kwargs) ==
    Dataset(VarNames(SelectSeq(FileSystem[file_path],
                               LAMBDA m : Matches(m, kwargs["filter_by_keys"])), {}))

\* the index file cfgrib reads or writes: its own beside the data file unless
\* indexpath says otherwise, none when indexpath is empty
index_of(file_path, kwargs) ==
    IF "indexpath" \notin DOMAIN kwargs THEN [t |-> "idx", of |-> file_path]
    ELSE IF kwargs["indexpath"] = PyStr("") THEN None
    ELSE kwargs["indexpath"]

----------------------------------------------------------------------------
\* the two functions of _field.py

field_default_with_index == PyBool(FALSE)

\* variant: the default of with_index is True
default_with_index_true == PyBool(TRUE)

fields_default_with_index == PyBool(FALSE)

\* variant: the filter dictionary is one object shared by all calls
shared_filter_by_keys == filter_by_keys

new_filter_by_keys == EmptyDict

\* variant: the key list is one object shared by all calls
shared_read_keys == read_keys

new_read_keys == << >>

Init ==
    /\ pc = "idle"
    /\ call = Unbound
    /\ level_type = Unbound
    /\ with_index = Unbound
    /\ filter_by_keys = EmptyDict
    /\ read_keys = << >>
    /\ backend_kwargs = Unbound
    /\ passed = Unbound
    /\ opens = 0
    /\ index_file = Unbound
    /\ data_set = Unbound
    /\ result = Unbound
    /\ memo = Unbound

\* A caller calls one of the two functions; load_field_from_file passes its five
\* arguments on to load_fields_from_file, which starts with lines 225-226.
Enter(m, paths) ==
    /\ pc \in {"idle", "done", "raised"}
    /\ \E fn \in Functions, fp \in paths, p \in Parameters, lt \in LevelTypes,
          lv \in Levels, wi \in WithIndexes :
        /\ call' = [fn |-> fn, file_path |-> fp, parameter |-> p, level_type |-> lt,
                    level |-> lv, with_index |-> wi]
        /\ level_type' = lt
        /\ with_index' =
            IF wi # Omitted THEN wi
            ELSE IF fn = "load_field_from_file" THEN field_default_with_index
            ELSE fields_default_with_index
    /\ filter_by_keys' = new_filter_by_keys
    /\ read_keys' = new_read_keys
    /\ backend_kwargs' = Unbound
    /\ passed' = Unbound
    /\ opens' = 0
    /\ index_file' = Unbound
    /\ data_set' = Unbound
    /\ result' = Unbound
    /\ memo' = m
    /\ pc' = "parameter"

Call == Enter(memo, Paths)

\* Sequences of calls on one file (the backend arguments are complete before the
\* file is read): a call is made, and the call that has just returned is either
\* remembered or not.
CallAgain == Enter(memo, {1})

CallRemember ==
    /\ pc \in {"done", "raised"}
    /\ Enter([parameter |-> call.parameter, level_type |-> call.level_type,
              level |-> call.level, with_index |-> call.with_index,
              filter_by_keys |-> filter_by_keys, read_keys |-> read_keys,
              backend_kwargs |-> passed.backend_kwargs], {1})

FillParameter ==
    /\ pc = "parameter"
    /\ IF call.parameter # None
       THEN /\ filter_by_keys' = _fill_parameter(call.parameter, filter_by_keys, read_keys)[1]
            /\ read_keys' = _fill_parameter(call.parameter, filter_by_keys, read_keys)[2]
       ELSE UNCHANGED <<filter_by_keys, read_keys>>
    /\ pc' = "level_type"
    /\ UNCHANGED <<call, level_type, with_index, backend_kwargs, passed, opens,
                   index_file, data_set, result, memo>>

\* variant: line 232 is missing, the raw level_type goes on
KeepLevelType ==
    /\ pc = "level_type"
    /\ pc' = IF level_type # None THEN "fill_level_type" ELSE "level"
    /\ UNCHANGED <<call, level_type, with_index, filter_by_keys, read_keys,
                   backend_kwargs, passed, opens, index_file, data_set, result, memo>>

FixLevelType ==
    /\ pc = "level_type"
    /\ IF level_type # None
       THEN /\ level_type' = fix_level_type(level_type)
            /\ pc' = "fill_level_type"
       ELSE /\ UNCHANGED level_type
            /\ pc' = "level"
    /\ UNCHANGED <<call, with_index, filter_by_keys, read_keys, backend_kwargs, passed,
                   opens, index_file, data_set, result, memo>>

FillLevelType ==
    /\ pc = "fill_level_type"
    /\ filter_by_keys' = _fill_level_type(level_type, filter_by_keys, read_keys)[1]
    /\ read_keys' = _fill_level_type(level_type, filter_by_keys, read_keys)[2]
    /\ pc' = "level"
    /\ UNCHANGED <<call, level_type, with_index, backend_kwargs, passed, opens,
                   index_file, data_set, result, memo>>

\* variant: line 235 is missing, the level entry is written whatever level is
FillLevelValueAlways ==
    /\ pc = "level"
    /\ filter_by_keys' = _fill_level_value(call.level, filter_by_keys, read_keys)[1]
    /\ read_keys' = _fill_level_value(call.level, filter_by_keys, read_keys)[2]
    /\ pc' = "kwargs"
    /\ UNCHANGED <<call, level_type, with_index, backend_kwargs, passed, opens,
                   index_file, data_set, result, memo>>

FillLevelValue ==
    /\ pc = "level"
    /\ IF call.level # None
       THEN /\ filter_by_keys' = _fill_level_value(call.level, filter_by_keys, read_keys)[1]
            /\ read_keys' = _fill_level_value(call.level, filter_by_keys, read_keys)[2]
       ELSE UNCHANGED <<filter_by_keys, read_keys>>
    /\ pc' = "kwargs"
    /\ UNCHANGED <<call, level_type, with_index, backend_kwargs, passed, opens,
                   index_file, data_set, result, memo>>

\* variant: line 241 is missing, read_keys is always passed
BuildBackendKwargsAlwaysKeys ==
    /\ pc = "kwargs"
    /\ backend_kwargs' = DictSet(DictSet(EmptyDict, "filter_by_keys", filter_by_keys),
                                 "read_keys", read_keys)
    /\ pc' = "index"
    /\ UNCHANGED <<call, level_type, with_index, filter_by_keys, read_keys, passed,
                   opens, index_file, data_set, result, memo>>

BuildBackendKwargs ==
    /\ pc = "kwargs"
    /\ backend_kwargs' =
        IF Len(read_keys) > 0
        THEN DictSet(DictSet(EmptyDict, "filter_by_keys", filter_by_keys),
                     "read_keys", read_keys)
        ELSE DictSet(EmptyDict, "filter_by_keys", filter_by_keys)
    /\ pc' = "index"
    /\ UNCHANGED <<call, level_type, with_index, filter_by_keys, read_keys, passed,
                   opens, index_file, data_set, result, memo>>

FillIndexPath ==
    /\ pc = "index"
    /\ backend_kwargs' = _fill_index_path(with_index, backend_kwargs)
    /\ pc' = "open"
    /\ UNCHANGED <<call, level_type, with_index, filter_by_keys, read_keys, passed,
                   opens, index_file, data_set, result, memo>>

\* variant: an empty result is tried once more
OpenDatasetRetry ==
    /\ pc = "open"
    /\ passed' = [file_path |-> call.file_path, backend_kwargs |-> backend_kwargs]
    /\ opens' = opens + 1
    /\ index_file' = index_of(call.file_path, backend_kwargs)
    /\ data_set' = open_dataset(call.file_path, backend_kwargs)
    /\ pc' = IF data_set'.data_vars = << >> /\ opens = 0 THEN "open" ELSE "return"
    /\ UNCHANGED <<call, level_type, with_index, filter_by_keys, read_keys,
                   backend_kwargs, result, memo>>

OpenDataset ==
    /\ pc = "open"
    /\ passed' = [file_path |-> call.file_path, backend_kwargs |-> backend_kwargs]
    /\ opens' = opens + 1
    /\ index_file' = index_of(call.file_path, backend_kwargs)
    /\ data_set' = open_dataset(call.file_path, backend_kwargs)
    /\ pc' = "return"
    /\ UNCHANGED <<call, level_type, with_index, filter_by_keys, read_keys,
                   backend_kwargs, result, memo>>

\* line 252; the value goes to the caller, or to line 155 of load_field_from_file
ReturnDataSet ==
    /\ pc = "return"
    /\ IF call.fn = "load_fields_from_file"
       THEN /\ result' = data_set
            /\ pc' = "done"
       ELSE /\ UNCHANGED result
            /\ pc' = "select"
    /\ UNCHANGED <<call, level_type, with_index, filter_by_keys, read_keys,
                   backend_kwargs, passed, opens, index_file, data_set, memo>>

\* variant: line 166 picks the last variable
SelectLast ==
    /\ pc = "select"
    /\ IF data_set = None
       THEN result' = None /\ pc' = "done"
       ELSE \E out \in IF data_set.data_vars = << >> THEN {None, Raise}
                        ELSE {data_set.data_vars[Len(data_set.data_vars)]} :
                IF out = Raise
                THEN UNCHANGED result /\ pc' = "raised"
                ELSE result' = out /\ pc' = "done"
    /\ UNCHANGED <<call, level_type, with_index, filter_by_keys, read_keys,
                   backend_kwargs, passed, opens, index_file, data_set, memo>>

\* lines 163-166 of load_field_from_file; an exception of line 166 is not caught
\* and ends the call without a value
SelectFirst ==
    /\ pc = "select"
    /\ IF data_set = None
       THEN result' = None /\ pc' = "done"
       ELSE \E out \in _load_first_variable(data_set) :
                IF out = Raise
                THEN UNCHANGED result /\ pc' = "raised"
                ELSE result' = out /\ pc' = "done"
    /\ UNCHANGED <<call, level_type, with_index, filter_by_keys, read_keys,
                   backend_kwargs, passed, opens, index_file, data_set, memo>>

Step ==
    \/ FillParameter
    \/ FixLevelType
    \/ FillLevelType
    \/ FillLevelValue
    \/ BuildBackendKwargs
    \/ FillIndexPath
    \/ OpenDataset
    \/ ReturnDataSet
    \/ SelectFirst

Next == Call \/ Step

Spec == Init /\ [][Next]_vars

\* sequences of calls in which an earlier call is remembered
NextSeq == CallAgain \/ CallRemember \/ Step

SpecSeq == Init /\ [][NextSeq]_vars

----------------------------------------------------------------------------
\* Properties

Running == pc \notin {"idle"}

\* message m fits the search conditions of call c
Fits(m, c) ==
    /\ \/ c.parameter = None
       \/ c.parameter.t = "str" /\ m["shortName"] = c.parameter
       \/ c.parameter.t = "dict"
            /\ \A k \in DOMAIN c.parameter.v : m[k] = c.parameter.v[k]
    /\ c.level_type = None \/ m["typeOfLevel"] = fix_level_type(c.level_type)
    /\ c.level = None \/ m["level"] = c.level

NoDataFits ==
    \A i \in 1..Len(FileSystem[call.file_path]) : ~Fits(FileSystem[call.file_path][i], call)

C2_FieldsNoneWhenNothingFound ==
    (pc = "done" /\ call.fn = "load_fields_from_file" /\ data_set.data_vars = << >>)
        => result = None

\* C3: when the data set load_fields_from_file returns for the five arguments holds
\* one or more data variables, load_field_from_file returns the first of them.
C3_FieldIsFirstVariable ==
    (pc = "done" /\ call.fn = "load_field_from_file" /\ Len(data_set.data_vars) >= 1)
        => /\ data_set = open_dataset(call.file_path, passed.backend_kwargs)
           /\ result = data_set.data_vars[1]
           /\ \A i \in 2..Len(data_set.data_vars) : result # data_set.data_vars[i]

C3_Witness ==
    /\ pc = "done"
    /\ call.fn = "load_field_from_file"
    /\ Len(data_set.data_vars) >= 2
    /\ result = data_set.data_vars[1]

ParameterKeySet == {ParameterKeys[i] : i \in 1..Len(ParameterKeys)}

\* the parameter part of filter f is the one call c asks for
ParameterForm(f, c) ==
    /\ c.parameter = None => (DOMAIN f) \cap (ParameterKeySet \cup {"shortName"}) = {}
    /\ c.parameter.t = "str" =>
        /\ "shortName" \in DOMAIN f /\ f["shortName"] = c.parameter
        /\ (DOMAIN f) \cap ParameterKeySet = {}
    /\ c.parameter.t = "dict" =>
        /\ \A k \in ParameterKeySet : k \in DOMAIN f /\ f[k] = c.parameter.v[k]
        /\ "shortName" \notin DOMAIN f

\* C4: a string parameter becomes a shortName filter, a dict parameter becomes
\* discipline, parameterCategory and parameterNumber filters, the filter never
\* carries both forms, and with parameter None it carries neither.
C4_ParameterForms ==
    /\ Running =>
        ~("shortName" \in DOMAIN filter_by_keys
            /\ (DOMAIN filter_by_keys) \cap ParameterKeySet # {})
    /\ (Running /\ pc # "parameter") => ParameterForm(filter_by_keys, call)
    /\ passed # Unbound => ParameterForm(passed.backend_kwargs["filter_by_keys"], call)

C4_Witness ==
    /\ passed # Unbound
    /\ call.parameter.t = "dict"
    /\ DOMAIN passed.backend_kwargs["filter_by_keys"] = ParameterKeySet
    /\ passed.backend_kwargs["filter_by_keys"]["parameterNumber"] = PyInt(225)

\* C5: with level None no level entry is put into the filter, whatever parameter and
\* level_type are, so the filter passed to the backend restricts no level value.
C5_NoLevelEntryWhenLevelNone ==
    /\ Running => ("level" \in DOMAIN filter_by_keys => call.level # None)
    /\ (Running /\ call.level # None /\ pc \notin {"parameter", "level_type",
                                                  "fill_level_type", "level"})
            => ("level" \in DOMAIN filter_by_keys /\ filter_by_keys["level"] = call.level)
    /\ (passed # Unbound /\ call.level = None)
            => "level" \notin DOMAIN passed.backend_kwargs["filter_by_keys"]

C5_Witness ==
    /\ pc = "done"
    /\ call.level = None
    /\ call.parameter # None
    /\ call.level_type # None
    /\ "level" \notin DOMAIN passed.backend_kwargs["filter_by_keys"]
    /\ Len(data_set.data_vars) >= 1

\* C6: when level_type is not None, the typeOfLevel filter that reaches the backend is
\* fix_level_type(level_type), and line 232 has run before the entry is written.
C6_LevelTypeNormalized ==
    /\ (Running /\ "typeOfLevel" \in DOMAIN filter_by_keys) =>
        /\ call.level_type # None
        /\ filter_by_keys["typeOfLevel"] = fix_level_type(call.level_type)
    /\ pc = "fill_level_type" =>
        /\ level_type = fix_level_type(call.level_type)
        /\ "typeOfLevel" \notin DOMAIN filter_by_keys
    /\ (passed # Unbound /\ call.level_type # None) =>
        /\ "typeOfLevel" \in DOMAIN passed.backend_kwargs["filter_by_keys"]
        /\ passed.backend_kwargs["filter_by_keys"]["typeOfLevel"]
                = fix_level_type(call.level_type)

C6_Witness ==
    /\ passed # Unbound
    /\ call.level_type = PyStr("pl")
    /\ passed.backend_kwargs["filter_by_keys"]["typeOfLevel"] = PyStr("isobaricInhPa")

\* C7: with with_index False the backend call uses no index file, with True cfgrib
\* generates its index file, and a call that omits with_index behaves as with False.
C7_WithIndex ==
    passed # Unbound =>
        /\ call.with_index = PyBool(FALSE) => index_file = None
        /\ call.with_index = PyBool(TRUE)
                => index_file = [t |-> "idx", of |-> call.file_path]
        /\ call.with_index = Omitted => index_file = None

C7_Witness ==
    /\ passed # Unbound
    /\ call.with_index = Omitted
    /\ call.fn = "load_fields_from_file"
    /\ "indexpath" \in DOMAIN passed.backend_kwargs
    /\ index_file = None

\* C8: the filter dictionary, the key list and the backend arguments of a call depend
\* only on its own arguments: a call with the arguments of a remembered earlier call
\* passes the backend arguments that call passed.
C8_Stateless ==
    (/\ memo # Unbound
     /\ passed # Unbound
     /\ memo.parameter = call.parameter
     /\ memo.level_type = call.level_type
     /\ memo.level = call.level
     /\ memo.with_index = call.with_index)
        => /\ passed.backend_kwargs = memo.backend_kwargs
           /\ filter_by_keys = memo.filter_by_keys
           /\ read_keys = memo.read_keys

C8_Witness ==
    /\ memo # Unbound
    /\ passed # Unbound
    /\ memo.parameter = call.parameter
    /\ memo.level_type = call.level_type
    /\ memo.level = call.level
    /\ memo.with_index = call.with_index
    /\ call.parameter.t = "dict"
    /\ passed.backend_kwargs = memo.backend_kwargs
    /\ Len(read_keys) = 3

\* C9: the backend arguments always hold filter_by_keys (an empty dictionary when
\* parameter, level_type and level are all None) and hold read_keys if and only if
\* the key list is not empty.
C9_BackendKwargsShape ==
    (Running /\ backend_kwargs # Unbound) =>
        /\ "filter_by_keys" \in DOMAIN backend_kwargs
        /\ backend_kwargs["filter_by_keys"] = filter_by_keys
        /\ (call.parameter = None /\ call.level_type = None /\ call.level = None)
                => backend_kwargs["filter_by_keys"] = EmptyDict
        /\ "read_keys" \in DOMAIN backend_kwargs <=> Len(read_keys) > 0
        /\ "read_keys" \in DOMAIN backend_kwargs
                => backend_kwargs["read_keys"] = read_keys

C9_Witness ==
    /\ passed # Unbound
    /\ "read_keys" \in DOMAIN passed.backend_kwargs
    /\ passed.backend_kwargs["read_keys"] = ParameterKeys

Before == {"parameter", "level_type", "fill_level_type", "level", "kwargs", "index", "open"}
After == {"return", "select", "done", "raised"}

\* C10: a call opens the file through the backend exactly once, after the filter, the
\* key list and the index setting are complete, and nothing of them changes afterwards.
C10_OpenedOnce ==
    /\ [](/\ pc \in Before => opens = 0 /\ passed = Unbound
          /\ pc \in After =>
                /\ opens = 1
                /\ passed.file_path = call.file_path
                /\ passed.backend_kwargs = backend_kwargs
                /\ backend_kwargs = _fill_index_path(with_index, backend_kwargs)
                /\ backend_kwargs["filter_by_keys"] = filter_by_keys)
    /\ [][(opens = 1 /\ opens' = 1) =>
            /\ filter_by_keys' = filter_by_keys
            /\ read_keys' = read_keys
            /\ backend_kwargs' = backend_kwargs
            /\ passed' = passed]_vars

C10_Witness ==
    /\ pc = "done"
    /\ call.fn = "load_field_from_file"
    /\ opens = 1
    /\ data_set.data_vars = << >>
    /\ DOMAIN filter_by_keys = {"shortName", "typeOfLevel", "level"}

====
